---- MODULE Spec2Model ----
(***************************************************************************)
(* A model of the Copilot Bridge Python clients (HTTP and gRPC) and of the *)
(* integration test harness.                                               *)
(*                                                                         *)
(* Text is a sequence of one-character strings, bytes on the wire are a    *)
(* sequence of one-byte strings.  Python's None is the value None; a JSON  *)
(* value is a tagged record, a JSON object a function from keys (texts) to *)
(* JSON values, as a Python dict is.                                       *)
(***************************************************************************)
EXTENDS Integers, Sequences, FiniteSets, TLC

VARIABLES
    transport,       \* "http" (CopilotClient) or "grpc" (CopilotGrpcClient)
    default_model,   \* self.default_model
    default_vendor,  \* self.default_vendor
    channel,         \* self._channel of the gRPC client: "none", "open", "closed"
    call,            \* the call in progress or last made: operation and arguments
    net,             \* the network exchanges the call has performed, in order
    answer,          \* what the server answered to the exchange of a non-streaming call
    outcome,         \* how the call ended: returned value or raised error
    gen,             \* the chat_stream generator: "none", "created", "read", "yield", "finished"
    resp,            \* the streaming HTTP response: "none", "open", "closed"
    wire,            \* the pieces of the streamed response the transport has not delivered yet
    buffer,          \* _post_stream's local buffer
    lines,           \* the lines of the current event not yet looked at
    yielded,         \* the fragments the caller has received from the generator
    sent,            \* the events the server streams for this call, as the server composed them
    text,            \* the response text chat_json works on
    doc,             \* how that response text was composed
    tests,           \* the harness: the names of the checks of the suite being run
    results,         \* the harness: the results list of the suite being run
    did,             \* what each check run so far did: "ok", or the kind it raised
    pc,              \* the harness: "idle", "loop", "returned", "aborted"
    opts,            \* main: the command-line options
    mpc,             \* main: where the harness process is
    all_results,     \* main: the results collected from the suites
    exit_status,     \* main: the exit status, once mpc = "exited"
    selected_model,  \* main: the model family the checks use
    models,          \* pick_model_interactive: the models listed
    stdin,           \* the lines the user will type, then end-of-file
    nread,           \* how many of them input() has returned
    scope            \* a with block over the gRPC client: "none", "inside", "left"

vars == <<transport, default_model, default_vendor, channel, call, net, answer, outcome,
          gen, resp, wire, buffer, lines, yielded, sent, text, doc,
          tests, results, did, pc,
          opts, mpc, all_results, exit_status, selected_model, models, stdin, nread,
          scope>>

-----------------------------------------------------------------------------
(* Text helpers: Python str operations on sequences of characters.         *)

None == "<None>"

\* Python truthiness of an Optional[str]: None and "" are falsy.
Truthy(x) == x \notin {None, ""}

Min(S) == CHOOSE x \in S : \A y \in S : x <= y
Max(S) == CHOOSE x \in S : \A y \in S : x >= y

\* ' \t\n\r': json's WHITESPACE; also what \s and str.strip() see in these texts.
Whitespace == {" ", "\t", "\n", "\r"}

Digits == {"0", "1", "2", "3", "4", "5", "6", "7", "8", "9"}

\* s[i:] with a 1-based i
From(s, i) == SubSeq(s, i, Len(s))

\* s.startswith(p, i-1): p occurs in s at the 1-based position i
OccursAt(s, p, i) ==
    /\ i >= 1
    /\ i + Len(p) - 1 <= Len(s)
    /\ \A k \in 1..Len(p) : s[i + k - 1] = p[k]

StartsWith(s, p) == OccursAt(s, p, 1)

\* s.find(p, i-1) with 1-based positions; 0 when p does not occur at or after i
Find(s, p, i) ==
    LET hits == {j \in i..(Len(s) - Len(p) + 1) : OccursAt(s, p, j)}
    IN  IF hits = {} THEN 0 ELSE Min(hits)

\* s.rfind(p), 1-based; 0 when p does not occur
RFind(s, p) ==
    LET hits == {j \in 1..(Len(s) - Len(p) + 1) : OccursAt(s, p, j)}
    IN  IF hits = {} THEN 0 ELSE Max(hits)

\* the first position at or after i that holds no whitespace (Len(s)+1 if none)
SkipWs(s, i) ==
    LET rest == {j \in i..Len(s) : s[j] \notin Whitespace}
    IN  IF rest = {} THEN Len(s) + 1 ELSE Min(rest)

\* str.strip()
Strip(s) ==
    LET keep == {j \in 1..Len(s) : s[j] \notin Whitespace}
    IN  IF keep = {} THEN <<>> ELSE SubSeq(s, Min(keep), Max(keep))

\* str.split(sep): the pieces of s between the occurrences of sep
RECURSIVE Split(_, _)
Split(s, sep) ==
    LET i == Find(s, sep, 1)
    IN  IF i = 0 THEN <<s>>
        ELSE <<SubSeq(s, 1, i - 1)>> \o Split(From(s, i + Len(sep)), sep)

RECURSIVE Concat(_)
Concat(ss) == IF ss = <<>> THEN <<>> ELSE Head(ss) \o Concat(Tail(ss))

-----------------------------------------------------------------------------
(* json.loads on the texts of this model: objects, strings, integers and   *)
(* the three literals.  The texts hold no "[", no backslash, no "." and no *)
(* exponent, so arrays, escapes and fractions are left out.                *)

JStr(s)  == [t |-> "str", v |-> s]
JNum(s)  == [t |-> "num", v |-> s]
JTrue    == [t |-> "lit", v |-> "true"]
JFalse   == [t |-> "lit", v |-> "false"]
JNull    == [t |-> "lit", v |-> "null"]
JObj(f)  == [t |-> "obj", v |-> f]
NoValue  == [t |-> "none", v |-> "none"]
\* the empty dict
EmptyDict == [x \in {} |-> NoValue]

ScanFail == [ok |-> FALSE, pos |-> 0, val |-> NoValue]
ScanOk(p, v) == [ok |-> TRUE, pos |-> p, val |-> v]

\* py_scanstring (strict): s[i] is the opening quote; ends at the next quote,
\* fails on a control character or when the text ends first
ScanString(s, i) ==
    LET j == Find(s, <<"\"">>, i + 1)
    IN  IF j = 0 THEN ScanFail
        ELSE IF \E k \in (i + 1)..(j - 1) : s[k] \in {"\n", "\t", "\r"} THEN ScanFail
        ELSE ScanOk(j + 1, JStr(SubSeq(s, i + 1, j - 1)))

\* NUMBER_RE: -?(0|[1-9]\d*) matched at i
ScanNumber(s, i) ==
    LET d == IF i <= Len(s) /\ s[i] = "-" THEN i + 1 ELSE i
        stop == {j \in d..Len(s) : s[j] \notin Digits}
        e == IF stop = {} THEN Len(s) + 1 ELSE Min(stop)
    IN  IF e = d THEN ScanFail
        ELSE IF s[d] = "0" THEN ScanOk(d + 1, JNum(SubSeq(s, i, d)))
        ELSE ScanOk(e, JNum(SubSeq(s, i, e - 1)))

RECURSIVE ScanValue(_, _), ScanMembers(_, _, _)

\* JSONObject after the first key's position was found: "key" : value , ... }
ScanMembers(s, i, acc) ==
    IF i > Len(s) \/ s[i] # "\"" THEN ScanFail
    ELSE
      LET k == ScanString(s, i)
      IN  IF ~k.ok THEN ScanFail
          ELSE
            LET c == SkipWs(s, k.pos)
            IN  IF c > Len(s) \/ s[c] # ":" THEN ScanFail
                ELSE
                  LET v == ScanValue(s, SkipWs(s, c + 1))
                  IN  IF ~v.ok THEN ScanFail
                      ELSE
                        LET e == SkipWs(s, v.pos)
                            upd == [x \in (DOMAIN acc) \cup {k.val.v} |->
                                       IF x = k.val.v THEN v.val ELSE acc[x]]
                        IN  IF e > Len(s) THEN ScanFail
                            ELSE IF s[e] = "}" THEN ScanOk(e + 1, JObj(upd))
                            ELSE IF s[e] = "," THEN ScanMembers(s, SkipWs(s, e + 1), upd)
                            ELSE ScanFail

\* scan_once: the JSON value that starts at i
ScanValue(s, i) ==
    IF i > Len(s) THEN ScanFail
    ELSE IF s[i] = "\"" THEN ScanString(s, i)
    ELSE IF s[i] = "{" THEN
        LET j == SkipWs(s, i + 1)
        IN  IF j > Len(s) THEN ScanFail
            ELSE IF s[j] = "}" THEN ScanOk(j + 1, JObj(EmptyDict))
            ELSE ScanMembers(s, j, EmptyDict)
    ELSE IF OccursAt(s, <<"n", "u", "l", "l">>, i) THEN ScanOk(i + 4, JNull)
    ELSE IF OccursAt(s, <<"t", "r", "u", "e">>, i) THEN ScanOk(i + 4, JTrue)
    ELSE IF OccursAt(s, <<"f", "a", "l", "s", "e">>, i) THEN ScanOk(i + 5, JFalse)
    ELSE ScanNumber(s, i)

\* json.loads(s): ok with the value, or not ok (json.JSONDecodeError)
json_loads(s) ==
    LET r == ScanValue(s, SkipWs(s, 1))
    IN  IF r.ok /\ SkipWs(s, r.pos) = Len(s) + 1 THEN r ELSE ScanFail

\* Python truthiness of a JSON value (dict.get("done") of an absent key is None)
JTruthy(v) ==
    CASE v.t = "lit" -> v.v = "true"
      [] v.t = "str" -> v.v # <<>>
      [] v.t = "num" -> \E k \in 1..Len(v.v) : v.v[k] \notin {"0", "-"}
      [] v.t = "obj" -> DOMAIN v.v # {}
      [] OTHER -> FALSE

-----------------------------------------------------------------------------
(* How a call ends.  val is a tagged value: a JSON value, a text (JStr) or *)
(* one of the interface's data shapes.                                     *)

NoOutcome    == [kind |-> "none", exc |-> "", val |-> NoValue]
Pending      == [kind |-> "pending", exc |-> "", val |-> NoValue]
Returned(v)  == [kind |-> "return", exc |-> "", val |-> v]
Raised(e, v) == [kind |-> "raise", exc |-> e, val |-> v]

-----------------------------------------------------------------------------
(* chat_json: the extraction of a JSON value from the chat response text.  *)

PreviewLen == 500

\* The backquote character is written "BQ": a TLA+ string cannot hold it.
BQ == "BQ"
Fence   == <<BQ, BQ, BQ>>
JsonTag == <<"j", "s", "o", "n">>

\* re.search(r"FENCE(?:json)?\s*([\s\S]*?)FENCE", s), FENCE being three
\* backquotes: the leftmost opening fence that
\* has a closing fence after its optional tag and whitespace; group(1) runs
\* (lazily) to the first closing fence.
FenceSearch(s) ==
    LET BodyStart(i) ==
            SkipWs(s, IF OccursAt(s, JsonTag, i + 3) THEN i + 7 ELSE i + 3)
        starts == {i \in 1..Len(s) :
                      OccursAt(s, Fence, i) /\ Find(s, Fence, BodyStart(i)) # 0}
    IN  IF starts = {} THEN [found |-> FALSE, group |-> <<>>]
        ELSE LET i == Min(starts)
                 q == BodyStart(i)
             IN  [found |-> TRUE, group |-> SubSeq(s, q, Find(s, Fence, q) - 1)]

\* re.search(r"\{[\s\S]*\}", s): from the first "{" (greedily) to the last "}".
BraceSearch(s) ==
    LET i == Find(s, <<"{">>, 1)
        j == RFind(s, <<"}">>)
    IN  IF i # 0 /\ j > i THEN [found |-> TRUE, group |-> SubSeq(s, i, j)]
        ELSE [found |-> FALSE, group |-> <<>>]

\* json.loads(x) as a statement of chat_json: returns, or JSONDecodeError leaves
LoadsOrElse(r, other) == IF r.ok THEN Returned(r.val) ELSE other

LoadsOrRaise(x) ==
    LET r == json_loads(x)
    IN  IF r.ok THEN Returned(r.val) ELSE Raised("JSONDecodeError", NoValue)

\* The error class of the final raise: CopilotClient.chat_json raises
\* CopilotClientError, ICopilotClient.chat_json (the gRPC client's) ValueError.
ParseErrorOf(tr) == IF tr = "http" THEN "CopilotClientError" ELSE "ValueError"

\* The message of the final raise carries text[:500].
Preview(s) == SubSeq(s, 1, IF Len(s) < PreviewLen THEN Len(s) ELSE PreviewLen)

\* A chat_json that only parses the whole text: it looks for no fenced block
\* and no braces.  C7 does not hold of it.
extract_json_whole_text_only(tr, s) ==
    LoadsOrElse(json_loads(s), Raised(ParseErrorOf(tr), JStr(Preview(s))))

\* chat_json after self.chat returned s
extract_json(tr, s) ==
    LET direct == json_loads(s)
        fence  == FenceSearch(s)
        brace  == BraceSearch(s)
    IN  IF direct.ok THEN Returned(direct.val)
        ELSE IF fence.found THEN LoadsOrRaise(Strip(fence.group))
        ELSE IF brace.found THEN LoadsOrRaise(brace.group)
        ELSE Raised(ParseErrorOf(tr), JStr(Preview(s)))

\* chat_json: an error of self.chat propagates, its text is parsed
chat_json(tr, chatOutcome) ==
    IF chatOutcome.kind = "raise" THEN chatOutcome
    ELSE extract_json(tr, chatOutcome.val.v)

-----------------------------------------------------------------------------
(* Response texts for chat_json, composed from parts: prose, a fence with  *)
(* or without the json tag, whitespace, a body, a closing fence, a tail.   *)

RECURSIVE Dumps(_), DumpMembers(_, _)

\* The text of a JSON value, as json.dumps writes it.
Dumps(v) ==
    CASE v.t = "str" -> <<"\"">> \o v.v \o <<"\"">>
      [] v.t = "num" -> v.v
      [] v.t = "lit" -> (CASE v.v = "true" -> <<"t", "r", "u", "e">>
                           [] v.v = "false" -> <<"f", "a", "l", "s", "e">>
                           [] OTHER -> <<"n", "u", "l", "l">>)
      [] v.t = "obj" -> <<"{">> \o DumpMembers(v.v, DOMAIN v.v) \o <<"}">>

DumpMembers(f, K) ==
    IF K = {} THEN <<>>
    ELSE LET k == CHOOSE x \in K : TRUE
         IN  <<"\"">> \o k \o <<"\"", ":", " ">> \o Dumps(f[k])
             \o (IF K \ {k} = {} THEN <<>> ELSE <<",", " ">> \o DumpMembers(f, K \ {k}))

Repeat(c, n) == [i \in 1..n |-> c]

ObjA == JObj(<<"a">> :> JNum(<<"1">>))

\* JSON objects a response may hold; two of them hold a fence inside a string.
Objects ==
    { JObj(EmptyDict),
      ObjA,
      JObj(<<"a">> :> JStr(<<"b", " ", "}">>)),
      JObj(<<"a">> :> ObjA),
      JObj((<<"a">> :> JTrue) @@ (<<"b">> :> JNum(<<"2">>))),
      JObj(<<"a">> :> JStr(Fence)),
      JObj(Fence :> JNum(<<"1">>)) }

\* Bodies that are no JSON object: prose, a brace pair that is no JSON, nothing,
\* a bare number, an object cut short, and prose longer than the preview.
RawBodies ==
    { <<"x">>, <<"{", "a", "}">>, <<>>, <<"7">>, <<"{", "\"", "a", "\"", ":">>,
      Repeat("x", PreviewLen + 1) }

Bodies == {[obj |-> TRUE, val |-> o, raw |-> <<>>] : o \in Objects}
            \cup {[obj |-> FALSE, val |-> NoValue, raw |-> r] : r \in RawBodies}

Docs ==
    [ pre   : {<<>>, <<"x", " ">>},
      open  : {"none", "bare", "json"},
      ws    : {<<>>, <<"\n">>},
      body  : Bodies,
      close : BOOLEAN,
      post  : {<<>>, <<" ", "x">>, <<" ">> \o Dumps(ObjA)} ]

BodyText(b) == IF b.obj THEN Dumps(b.val) ELSE b.raw

Render(d) ==
    d.pre
    \o (CASE d.open = "none" -> <<>>
          [] d.open = "bare" -> Fence \o d.ws
          [] d.open = "json" -> Fence \o JsonTag \o d.ws)
    \o BodyText(d.body)
    \o (IF d.close THEN d.ws \o Fence ELSE <<>>)
    \o d.post

NoDoc == [pre |-> <<>>, open |-> "none", ws |-> <<>>,
          body |-> [obj |-> FALSE, val |-> NoValue, raw |-> <<>>],
          close |-> FALSE, post |-> <<>>]

-----------------------------------------------------------------------------
(* The clients' requests.  A message is a dict or a ChatMessage object; the *)
(* messages argument is a prompt string or a list of messages.             *)

Prompt(p)   == [kind |-> "str", text |-> p]
MsgList(ms) == [kind |-> "list", items |-> ms]

Dict(r, c)        == [cls |-> "dict", role |-> r, content |-> c]
ChatMessage(r, c) == [cls |-> "ChatMessage", role |-> r, content |-> c]

\* dict.get(k, dflt)
Get(d, k, dflt) == IF k \in DOMAIN d THEN d[k] ELSE dflt

\* The reverse precedence, y or x: a client that prefers its default to the
\* per-call value.  C9 does not hold of it.
OrDefaultFirst(x, y) == IF Truthy(y) THEN y ELSE x

\* x or y
Or(x, y) == IF Truthy(x) THEN x ELSE y

\* CopilotClient._build_payload: the body of POST /chat and POST /chat/stream.
\* A ChatMessage becomes a dict, a dict is kept; an optional field is set only
\* when its value is truthy.
_build_payload(messages, model, vendor, system_prompt, dm, dv) ==
    LET msgs == IF messages.kind = "str"
                THEN <<Dict("user", messages.text)>>
                ELSE [i \in 1..Len(messages.items) |->
                         IF messages.items[i].cls # "dict"
                         THEN Dict(messages.items[i].role, messages.items[i].content)
                         ELSE messages.items[i]]
        m == Or(model, dm)
        v == Or(vendor, dv)
    IN  ("messages" :> msgs)
        @@ (IF Truthy(m) THEN "model" :> m ELSE EmptyDict)
        @@ (IF Truthy(v) THEN "vendor" :> v ELSE EmptyDict)
        @@ (IF Truthy(system_prompt) THEN "systemPrompt" :> system_prompt ELSE EmptyDict)

\* CopilotGrpcClient._build_request: pb2.ChatRequest, every field always set.
_build_request(messages, model, vendor, system_prompt, dm, dv) ==
    LET msgs == IF messages.kind = "str"
                THEN <<Dict("user", messages.text)>>
                ELSE [i \in 1..Len(messages.items) |->
                         Dict(messages.items[i].role, messages.items[i].content)]
    IN  [messages |-> msgs,
         model |-> Or(model, dm),
         vendor |-> Or(vendor, dv),
         system_prompt |-> Or(system_prompt, "")]

\* timeout=30 of _get, timeout=300 of _post and _post_stream
GetTimeout  == 30
PostTimeout == 300

\* One network exchange: an HTTP request or an RPC.  timeout is <<seconds>>, or
\* <<>> when the call passes none.
Exchange(m, p, b, t) == [method |-> m, path |-> p, body |-> b, timeout |-> t]

NoArgs == [messages |-> Prompt(""), model |-> None, vendor |-> None,
           system_prompt |-> None]

\* The exchange an operation issues: urlopen(req, timeout=...) of _get, _post and
\* _post_stream, or the stub's method.
Request(tr, op, a, dm, dv) ==
    IF tr = "http" THEN
        CASE op = "status"      -> Exchange("GET", "/status", EmptyDict, <<GetTimeout>>)
          [] op = "list_models" -> Exchange("GET", "/models", EmptyDict, <<GetTimeout>>)
          [] op = "chat_stream" ->
                Exchange("POST", "/chat/stream",
                         _build_payload(a.messages, a.model, a.vendor, a.system_prompt, dm, dv),
                         <<PostTimeout>>)
          [] OTHER ->
                Exchange("POST", "/chat",
                         _build_payload(a.messages, a.model, a.vendor, a.system_prompt, dm, dv),
                         <<PostTimeout>>)
    ELSE
        CASE op = "status"      -> Exchange("RPC", "GetStatus", EmptyDict, <<>>)
          [] op = "list_models" -> Exchange("RPC", "ListModels", EmptyDict, <<>>)
          [] op = "chat_stream" ->
                Exchange("RPC", "ChatStream",
                         _build_request(a.messages, a.model, a.vendor, a.system_prompt, dm, dv),
                         <<>>)
          [] OTHER ->
                Exchange("RPC", "Chat",
                         _build_request(a.messages, a.model, a.vendor, a.system_prompt, dm, dv),
                         <<>>)

-----------------------------------------------------------------------------
(* The server's replies and what the clients make of them.                 *)

Reply(k, d) == [kind |-> k, val |-> d]

\* _get / _post after urlopen: the parsed body, or the error that leaves.
\* HTTPError and URLError become CopilotClientError; a body that is no JSON
\* (JSONDecodeError) and a read that times out leave as they are.
_post(reply) ==
    CASE reply.kind = "ok"         -> Returned(reply.val)
      [] reply.kind = "bad_body"   -> Raised("JSONDecodeError", NoValue)
      [] reply.kind = "http_error" -> Raised("CopilotClientError", JStr(<<"H", "T", "T", "P">>))
      [] reply.kind = "url_error"  -> Raised("CopilotClientError", JStr(<<"c", "o", "n", "n">>))
      [] OTHER                     -> Raised("TimeoutError", NoValue)

_get(reply) == _post(reply)

\* a stub method: the reply message, or grpc.RpcError
StubCall(reply) ==
    IF reply.kind = "ok" THEN Returned(reply.val) ELSE Raised("RpcError", NoValue)

Receive(tr, op, reply) ==
    IF tr = "grpc" THEN StubCall(reply)
    ELSE IF op \in {"status", "list_models"} THEN _get(reply)
    ELSE _post(reply)

\* The key of a reply field: the HTTP JSON name or the protobuf field name.
Field(tr, http, grpc) == IF tr = "http" THEN http ELSE grpc

\* status(): StatusResponse from the reply, a missing JSON key defaulted
status(tr, r) ==
    IF r.kind = "raise" THEN r
    ELSE Returned([t |-> "StatusResponse",
                   v |-> [status |-> Get(r.val, "status", ""),
                          port |-> Get(r.val, "port", 0),
                          default_model |-> Get(r.val, Field(tr, "defaultModel", "default_model"), ""),
                          requests_served |-> Get(r.val, Field(tr, "requestsServed", "requests_served"), 0),
                          version |-> Get(r.val, "version", "")]])

ModelInfo(tr, m) ==
    [id |-> Get(m, "id", ""), name |-> Get(m, "name", ""),
     vendor |-> Get(m, "vendor", ""), family |-> Get(m, "family", ""),
     version |-> Get(m, "version", ""),
     max_input_tokens |-> Get(m, Field(tr, "maxInputTokens", "max_input_tokens"), 0)]

\* list_models(): one ModelInfo per entry of the reply's models, in order
list_models(tr, r) ==
    IF r.kind = "raise" THEN r
    ELSE LET ms == Get(r.val, "models", <<>>)
         IN  Returned([t |-> "models", v |-> [i \in 1..Len(ms) |-> ModelInfo(tr, ms[i])]])

\* chat(): the reply's content
chat(tr, r) ==
    IF r.kind = "raise" THEN r
    ELSE Returned(JStr(Get(r.val, "content", <<>>)))

\* chat_full(): ChatResponse(id, model, content)
chat_full(tr, r) ==
    IF r.kind = "raise" THEN r
    ELSE Returned([t |-> "ChatResponse",
                   v |-> [id |-> Get(r.val, "id", 0),
                          model |-> Get(r.val, "model", ""),
                          content |-> Get(r.val, "content", <<>>)]])

\* What the call returns or raises once the reply is there.
Complete(tr, op, reply) ==
    LET r == Receive(tr, op, reply)
    IN  CASE op = "status"      -> status(tr, r)
          [] op = "list_models" -> list_models(tr, r)
          [] op = "chat"        -> chat(tr, r)
          [] op = "chat_full"   -> chat_full(tr, r)
          [] op = "chat_json"   -> chat_json(tr, chat(tr, r))

-----------------------------------------------------------------------------
(* The streamed response of POST /chat/stream: events ended by a blank      *)
(* line, each a list of lines.  The server composes events from the lines  *)
(* below; the transport delivers their bytes in pieces.                     *)

Q == "\""
Quoted(s) == <<Q>> \o s \o <<Q>>

DataPrefix == <<"d", "a", "t", "a", ":", " ">>
KContent   == <<"c", "o", "n", "t", "e", "n", "t">>
KDone      == <<"d", "o", "n", "e">>
KError     == <<"e", "r", "r", "o", "r">>

\* The character e-acute and the two bytes of its UTF-8 encoding.
EAcute   == "U+00E9"
LeadByte == "xC3"
ContByte == "xA9"

\* The two halves of a line's bytes; the transport may deliver them in
\* different reads.
LineParts(kind) ==
    CASE kind = "a"       -> <<DataPrefix \o <<"{">> \o Quoted(KContent) \o <<":">>,
                               Quoted(<<"a">>) \o <<"}">> >>
      [] kind = "b"       -> <<DataPrefix \o <<"{">> \o Quoted(KContent) \o <<":">>,
                               Quoted(<<"b">>) \o <<"}">> >>
      [] kind = "u"       -> <<DataPrefix \o <<"{">> \o Quoted(KContent) \o <<":", Q, LeadByte>>,
                               <<ContByte, Q, "}">> >>
      [] kind = "done"    -> <<DataPrefix \o <<"{">> \o Quoted(KDone) \o <<":">>,
                               <<"t", "r", "u", "e", "}">> >>
      [] kind = "notdone" -> <<DataPrefix \o <<"{">> \o Quoted(KDone) \o <<":">>,
                               <<"f", "a", "l", "s", "e", "}">> >>
      [] kind = "error"   -> <<DataPrefix \o <<"{">> \o Quoted(KError) \o <<":">>,
                               Quoted(<<"e">>) \o <<"}">> >>
      [] kind = "other"   -> <<DataPrefix \o <<"{">> \o Quoted(<<"x">>) \o <<":">>,
                               <<"1", "}">> >>
      [] kind = "bad"     -> <<DataPrefix \o <<"{">>, <<"x">> >>
      [] kind = "nonobj"  -> <<DataPrefix, <<"7">> >>
      [] kind = "comment" -> << <<":">>, <<" ", "k">> >>

LineKinds == {"a", "b", "u", "done", "notdone", "error", "other", "bad", "nonobj", "comment"}

\* The events a server may send: one line each, or several lines.
Events ==
    {<<k>> : k \in LineKinds}
    \cup { <<"a", "b">>, <<"a", "done", "b">>, <<"a", "error", "b">> }

\* The pieces of an event on the wire: each line in two pieces, a newline
\* after it, and the newline that ends the event as a piece of its own.
RECURSIVE EventPieces(_)
EventPieces(ev) ==
    IF ev = <<>> THEN <<>>
    ELSE <<LineParts(Head(ev))[1], LineParts(Head(ev))[2] \o <<"\n">> >>
         \o EventPieces(Tail(ev))

RECURSIVE StreamPieces(_, _)
StreamPieces(evs, ended) ==
    IF evs = <<>> THEN <<>>
    ELSE EventPieces(Head(evs))
         \o (IF Len(evs) > 1 \/ ended THEN << <<"\n">> >> ELSE <<>>)
         \o StreamPieces(Tail(evs), ended)

\* bytes.decode("utf-8"): the characters, or not ok (UnicodeDecodeError) when a
\* lead byte has no continuation byte after it or a continuation byte no lead.
Decode(bs) ==
    LET wellFormed ==
            \A i \in 1..Len(bs) :
                /\ bs[i] = LeadByte => (i < Len(bs) /\ bs[i + 1] = ContByte)
                /\ bs[i] = ContByte => (i > 1 /\ bs[i - 1] = LeadByte)
        NotCont(b) == b # ContByte
        firsts == SelectSeq(bs, NotCont)
    IN  IF wellFormed
        THEN [ok |-> TRUE,
              s  |-> [i \in 1..Len(firsts) |->
                         IF firsts[i] = LeadByte THEN EAcute ELSE firsts[i]]]
        ELSE [ok |-> FALSE, s |-> <<>>]

-----------------------------------------------------------------------------
(* CopilotClient._post_stream: the read loop.                               *)

Step(a, b, l, e, v) == [act |-> a, buffer |-> b, lines |-> l, exc |-> e, val |-> v]

\* A read loop that does not look for "done": it goes on after the done line.
\* C2 does not hold of it.
OnEventDataIgnoringDone(r) ==
    IF ~r.ok THEN [act |-> "raise", exc |-> "JSONDecodeError", val |-> NoValue]
    ELSE IF r.val.t # "obj" THEN [act |-> "raise", exc |-> "AttributeError", val |-> NoValue]
    ELSE IF KError \in DOMAIN r.val.v
         THEN [act |-> "raise", exc |-> "CopilotClientError", val |-> r.val.v[KError]]
    ELSE IF KContent \in DOMAIN r.val.v
         THEN [act |-> "yield", exc |-> "", val |-> r.val.v[KContent]]
    ELSE [act |-> "skip", exc |-> "", val |-> NoValue]

\* What one "data: " line does once json.loads has run on it:
\*   json.loads failed           -> JSONDecodeError leaves
\*   the value has no .get       -> AttributeError leaves
\*   event_data.get("done")      -> return
\*   "error" in event_data       -> raise CopilotClientError(event_data["error"])
\*   "content" in event_data     -> yield event_data["content"]
OnEventData(r) ==
    IF ~r.ok THEN [act |-> "raise", exc |-> "JSONDecodeError", val |-> NoValue]
    ELSE IF r.val.t # "obj" THEN [act |-> "raise", exc |-> "AttributeError", val |-> NoValue]
    ELSE IF JTruthy(Get(r.val.v, KDone, JNull)) THEN [act |-> "return", exc |-> "", val |-> NoValue]
    ELSE IF KError \in DOMAIN r.val.v
         THEN [act |-> "raise", exc |-> "CopilotClientError", val |-> r.val.v[KError]]
    ELSE IF KContent \in DOMAIN r.val.v
         THEN [act |-> "yield", exc |-> "", val |-> r.val.v[KContent]]
    ELSE [act |-> "skip", exc |-> "", val |-> NoValue]

\* event_data = json.loads(line[6:]) and the tests on it
DataLine(payload) == OnEventData(json_loads(payload))

Reverse(q) == [i \in 1..Len(q) |-> q[Len(q) + 1 - i]]

\* A read loop that takes the lines of an event last to first.  C3 does not
\* hold of it.
EventLinesReversed(event) == Reverse(Split(event, <<"\n">>))

\* event.split("\n")
EventLines(event) == Split(event, <<"\n">>)

\* The loop from the point where buf is the buffer and ls are the lines of the
\* current event still to look at, up to the next yield, return, raise or read.
\* OnLine: the first of ls was a data line and did d.  NextEvent: no line is
\* left, and the first blank line of buf is at i (0: none, so read again).
RECURSIVE Process(_, _), OnLine(_, _, _), NextEvent(_, _)
Process(buf, ls) ==
    IF ls # <<>> THEN
        IF StartsWith(Head(ls), DataPrefix)
        THEN OnLine(buf, ls, DataLine(From(Head(ls), Len(DataPrefix) + 1)))
        ELSE Process(buf, Tail(ls))
    ELSE NextEvent(buf, Find(buf, <<"\n", "\n">>, 1))

OnLine(buf, ls, d) ==
    CASE d.act = "skip"  -> Process(buf, Tail(ls))
      [] d.act = "yield" -> Step("yield", buf, Tail(ls), "", d.val)
      [] OTHER           -> Step(d.act, <<>>, <<>>, d.exc, d.val)

NextEvent(buf, i) ==
    IF i = 0 THEN Step("read", buf, <<>>, "", NoValue)
    ELSE Process(From(buf, i + 2), EventLines(SubSeq(buf, 1, i - 1)))

\* buffer += chunk.decode("utf-8"), then the loop over the buffer
Decoded(buf, d) ==
    IF ~d.ok THEN Step("raise", <<>>, <<>>, "UnicodeDecodeError", NoValue)
    ELSE Process(buf \o d.s, <<>>)

\* resp.read(1024) returned chunk
AfterRead(buf, chunk) == Decoded(buf, Decode(chunk))

\* A generator without the finally clause: the response is closed only where
\* the loop returns.  C4 does not hold of it.
RespAfterReturnOnly(exit) == IF exit = "return" THEN "closed" ELSE "open"

\* finally: resp.close() -- the response after the generator is left by a
\* return, a raise, or the caller's close (GeneratorExit at the yield)
RespAfter(exit) == "closed"

\* A chunk handled with its content looked at first.
GrpcChunkContentFirst(chunk) ==
    IF Truthy(chunk.content) THEN Step("yield", <<>>, <<>>, "", JStr(chunk.content))
    ELSE IF Truthy(chunk.error) THEN Step("raise", <<>>, <<>>, "RuntimeError", JStr(chunk.error))
    ELSE IF chunk.done THEN Step("return", <<>>, <<>>, "", NoValue)
    ELSE Step("read", <<>>, <<>>, "", NoValue)

\* CopilotGrpcClient.chat_stream: what one inbound message does
GrpcChunk(chunk) ==
    IF Truthy(chunk.error) THEN Step("raise", <<>>, <<>>, "RuntimeError", JStr(chunk.error))
    ELSE IF chunk.done THEN Step("return", <<>>, <<>>, "", NoValue)
    ELSE IF Truthy(chunk.content) THEN Step("yield", <<>>, <<>>, "", JStr(chunk.content))
    ELSE Step("read", <<>>, <<>>, "", NoValue)

-----------------------------------------------------------------------------
(* Inputs: the arguments callers pass and the replies the server gives.    *)

MaxMsgs   == 2
MaxEvents == 2

SeqsUpTo(S, n) == UNION {[1..k -> S] : k \in 0..n}

\* CopilotClient takes dicts and ChatMessage objects, CopilotGrpcClient
\* ChatMessage objects.
MsgsOf(tr) ==
    IF tr = "http" THEN {Dict("user", "q"), ChatMessage("assistant", "r")}
    ELSE {ChatMessage("user", "q"), ChatMessage("assistant", "r")}

ArgsOf(tr) ==
    [ messages      : {Prompt("hi"), Prompt("")}
                        \cup {MsgList(l) : l \in SeqsUpTo(MsgsOf(tr), MaxMsgs)},
      model         : {None, "", "m1"},
      vendor        : {None, "v1"},
      system_prompt : {None, "sp"} ]

SimpleArgs == [messages |-> Prompt("hi"), model |-> None, vendor |-> None,
               system_prompt |-> None]

Ops == {"status", "list_models", "chat", "chat_full", "chat_json", "chat_stream"}

ArgsFor(tr, op) == IF op \in {"status", "list_models"} THEN {NoArgs} ELSE ArgsOf(tr)

StatusData(tr) ==
    IF tr = "http"
    THEN [status |-> "running", port |-> 3741, defaultModel |-> "gpt-4o",
          requestsServed |-> 3, version |-> "1.0.0"]
    ELSE [status |-> "running", port |-> 3741, default_model |-> "gpt-4o",
          requests_served |-> 3, version |-> "1.0.0"]

ModelData(tr, fam) ==
    IF tr = "http"
    THEN [id |-> fam, name |-> fam, vendor |-> "copilot", family |-> fam,
          version |-> "1", maxInputTokens |-> 128000]
    ELSE [id |-> fam, name |-> fam, vendor |-> "copilot", family |-> fam,
          version |-> "1", max_input_tokens |-> 128000]

\* The bodies a server answers an operation with; txt is the chat content.
OkData(tr, op, txt) ==
    CASE op = "status"      -> {StatusData(tr)}
      [] op = "list_models" -> {[models |-> <<>>],
                                [models |-> <<ModelData(tr, "gpt-4o"), ModelData(tr, "o1")>>]}
      [] OTHER              -> {[id |-> 1, model |-> "gpt-4o", content |-> txt]}

\* The replies to an exchange: a body, or a failure of the kinds the transport
\* has; a read times out only when the exchange carries a timeout.
Replies(tr, op, txt, exch) ==
    {Reply("ok", d) : d \in OkData(tr, op, txt)}
    \cup (IF tr = "http"
          THEN {Reply("bad_body", NoValue), Reply("http_error", NoValue),
                Reply("url_error", NoValue)}
               \cup (IF exch.timeout # <<>> THEN {Reply("timeout", NoValue)} ELSE {})
          ELSE {Reply("rpc_error", NoValue)})

Stream(evs, e) == [events |-> evs, ended |-> e]
NoStream == Stream(<<>>, FALSE)

\* Every stream of at most MaxEvents events; the last one may lack its blank line.
AllStreams == {Stream(evs, e) : evs \in SeqsUpTo(Events, MaxEvents), e \in BOOLEAN}

SmallStreams == {Stream(<< <<"a">>, <<"done">> >>, TRUE), Stream(<< <<"error">> >>, TRUE)}

Chunk(e, d, c) == [error |-> e, done |-> d, content |-> c]

\* ChatStream replies: chunks with content, a done chunk, an error chunk
GrpcStreams ==
    { << Chunk("", FALSE, "a"), Chunk("", TRUE, "") >>,
      << Chunk("boom", FALSE, "") >>,
      <<>> }

-----------------------------------------------------------------------------
(* The state machine.                                                       *)

NoCall == [op |-> "none", args |-> NoArgs]

NoReply == Reply("none", NoValue)

Idle ==
    /\ call = NoCall
    /\ net = <<>>
    /\ answer = NoReply
    /\ outcome = NoOutcome
    /\ gen = "none"
    /\ resp = "none"
    /\ wire = <<>>
    /\ buffer = <<>>
    /\ lines = <<>>
    /\ yielded = <<>>
    /\ sent = NoStream

\* CopilotClient.__init__ / CopilotGrpcClient.__init__
Construct(tr, dm, dv) ==
    /\ transport = tr
    /\ default_model = IF tr = "grpc" THEN Or(dm, "") ELSE dm
    /\ default_vendor = IF tr = "grpc" THEN Or(dv, "") ELSE dv
    /\ channel = IF tr = "grpc" THEN "open" ELSE "none"

\* The options of main: --http-only, --grpc-only, --model
Options(h, g, m) == [http_only |-> h, grpc_only |-> g, model |-> m]

NoPicker == selected_model = None /\ models = <<>> /\ stdin = <<>> /\ nread = 0

NoMain ==
    /\ opts = Options(FALSE, FALSE, None)
    /\ mpc = "none"
    /\ all_results = <<>>
    /\ exit_status = 0

NoSuite == tests = <<>> /\ results = <<>> /\ did = <<>> /\ pc = "idle"

NoHarness == NoSuite /\ NoMain /\ NoPicker /\ scope = "none"

Init ==
    /\ \E tr \in {"http", "grpc"}, dm \in {None, "", "dm"}, dv \in {None, "dv"} :
          Construct(tr, dm, dv)
    /\ Idle
    /\ text = Dumps(ObjA)
    /\ doc = NoDoc
    /\ NoHarness

clientVars  == <<transport, default_model, default_vendor, channel>>
streamVars  == <<gen, resp, wire, buffer, lines, yielded, sent>>
jsonVars    == <<text, doc>>
suiteVars   == <<tests, results, did, pc>>
mainVars    == <<opts, mpc, all_results, exit_status>>
pickerVars  == <<selected_model, models, stdin, nread>>
harnessVars == <<suiteVars, mainVars, pickerVars>>

\* A caller calls op.  A chat_stream call only creates the generator: none of
\* its body runs before the first next().  Any other call builds its request
\* and blocks in the exchange.
Invoke(op, A) ==
    /\ pc = "idle"
    /\ call.op = "none"
    /\ \E a \in A :
          /\ call' = [op |-> op, args |-> a]
          /\ IF op = "chat_stream"
             THEN /\ gen' = "created"
                  /\ UNCHANGED <<net, outcome>>
             ELSE /\ net' = <<Request(transport, op, a, default_model, default_vendor)>>
                  /\ outcome' = Pending
                  /\ gen' = gen
    /\ answer' = NoReply
    /\ UNCHANGED <<clientVars, resp, wire, buffer, lines, yielded, sent, jsonVars, scope, harnessVars>>

\* A client that retries: after a failed exchange it sends the request once
\* more before giving up.  C8 does not hold of it.
RespondRetrying ==
    /\ outcome.kind = "pending"
    /\ gen = "none"
    /\ \E r \in Replies(transport, call.op, text, net[Len(net)]) :
          /\ answer' = r
          /\ IF r.kind # "ok" /\ Len(net) = 1
             THEN /\ net' = Append(net, net[1])
                  /\ outcome' = outcome
             ELSE /\ net' = net
                  /\ outcome' = Complete(transport, call.op, r)
    /\ UNCHANGED <<clientVars, call, streamVars, jsonVars, scope, harnessVars>>

\* The reply arrives (or the exchange fails) and the call returns or raises.
Respond ==
    /\ outcome.kind = "pending"
    /\ gen = "none"
    /\ \E r \in Replies(transport, call.op, text, net[Len(net)]) :
          /\ answer' = r
          /\ outcome' = Complete(transport, call.op, r)
    /\ UNCHANGED <<clientVars, call, net, streamVars, jsonVars, scope, harnessVars>>

\* The caller has its result and goes on; the client keeps nothing of the call.
CallerContinues ==
    /\ outcome.kind \in {"return", "raise", "closed"}
    /\ call' = NoCall
    /\ net' = <<>>
    /\ answer' = NoReply
    /\ outcome' = NoOutcome
    /\ gen' = "none"
    /\ resp' = "none"
    /\ wire' = <<>>
    /\ buffer' = <<>>
    /\ lines' = <<>>
    /\ yielded' = <<>>
    /\ sent' = NoStream
    /\ UNCHANGED <<clientVars, jsonVars, scope, harnessVars>>

\* The first next() on the generator: the request is built and sent.
GenStart ==
    /\ gen = "created"
    /\ net' = <<Request(transport, "chat_stream", call.args, default_model, default_vendor)>>
    /\ gen' = "connect"
    /\ UNCHANGED <<clientVars, call, answer, outcome, resp, wire, buffer, lines, yielded, sent,
                   jsonVars, scope, harnessVars>>

\* urlopen returns the response or fails; ChatStream starts or fails.
StreamOpen(HS, GS) ==
    /\ gen = "connect"
    /\ \/ /\ transport = "http"
          /\ \E st \in HS :
                /\ sent' = st
                /\ wire' = StreamPieces(st.events, st.ended)
                /\ resp' = "open"
                /\ gen' = "read"
                /\ outcome' = outcome
       \/ /\ transport = "http"
          /\ \E k \in {"http_error", "url_error"} :
                outcome' = _post(Reply(k, NoValue))
          /\ gen' = "finished"
          /\ UNCHANGED <<sent, wire, resp>>
       \/ /\ transport = "grpc"
          /\ \E st \in GS :
                /\ sent' = Stream(st, TRUE)
                /\ wire' = st
          /\ gen' = "read"
          /\ UNCHANGED <<resp, outcome>>
    /\ UNCHANGED <<clientVars, call, net, answer, buffer, lines, yielded, jsonVars, scope, harnessVars>>

\* The generator's state after a stretch of its loop.
Apply(st) ==
    /\ gen' = CASE st.act = "yield" -> "yield"
                [] st.act = "read"  -> "read"
                [] OTHER            -> "finished"
    /\ buffer' = st.buffer
    /\ lines' = st.lines
    /\ yielded' = IF st.act = "yield" THEN Append(yielded, st.val) ELSE yielded
    /\ outcome' = CASE st.act = "return" -> Returned(NoValue)
                    [] st.act = "raise"  -> Raised(st.exc, st.val)
                    [] OTHER             -> outcome
    /\ resp' = IF st.act \in {"return", "raise"} /\ resp = "open"
               THEN RespAfter(st.act) ELSE resp

\* The generator blocks in a read.  HTTP: resp.read(1024) returns the next
\* bytes (any number of pieces), returns nothing at the end of the response, or
\* times out.  gRPC: the next message arrives, the stream ends, or the RPC fails.
GenRead ==
    /\ gen = "read"
    /\ \/ /\ transport = "http"
          /\ \E k \in 1..Len(wire) :
                /\ Apply(AfterRead(buffer, Concat(SubSeq(wire, 1, k))))
                /\ wire' = SubSeq(wire, k + 1, Len(wire))
       \/ /\ transport = "http"
          /\ wire = <<>>
          /\ Apply(Step("return", <<>>, <<>>, "", NoValue))
          /\ wire' = wire
       \/ /\ transport = "http"
          /\ Apply(Step("raise", <<>>, <<>>, "TimeoutError", NoValue))
          /\ wire' = wire
       \/ /\ transport = "grpc"
          /\ wire # <<>>
          /\ Apply(GrpcChunk(Head(wire)))
          /\ wire' = Tail(wire)
       \/ /\ transport = "grpc"
          /\ wire = <<>>
          /\ Apply(Step("return", <<>>, <<>>, "", NoValue))
          /\ wire' = wire
       \/ /\ transport = "grpc"
          /\ Apply(Step("raise", <<>>, <<>>, "RpcError", NoValue))
          /\ wire' = wire
    /\ UNCHANGED <<clientVars, call, net, answer, sent, jsonVars, scope, harnessVars>>

\* The caller asks for the next fragment: the loop goes on after the yield.
GenResume ==
    /\ gen = "yield"
    /\ IF transport = "http"
       THEN Apply(Process(buffer, lines))
       ELSE Apply(Step("read", <<>>, <<>>, "", NoValue))
    /\ UNCHANGED <<clientVars, call, net, answer, wire, sent, jsonVars, scope, harnessVars>>

\* The caller abandons the sequence: close() on a generator that never ran
\* runs nothing; at a yield it raises GeneratorExit there, and the finally
\* clause runs.
GenClose ==
    /\ gen \in {"created", "yield"}
    /\ gen' = "finished"
    /\ outcome' = [kind |-> "closed", exc |-> "", val |-> NoValue]
    /\ resp' = IF resp = "open" THEN RespAfter("close") ELSE resp
    /\ UNCHANGED <<clientVars, call, net, answer, wire, buffer, lines, yielded, sent,
                   jsonVars, scope, harnessVars>>

Next ==
    \/ \E op \in Ops : Invoke(op, ArgsFor(transport, op))
    \/ Respond
    \/ CallerContinues
    \/ GenStart
    \/ StreamOpen(SmallStreams, GrpcStreams)
    \/ GenRead
    \/ GenResume
    \/ GenClose

Spec == Init /\ [][Next]_vars

\* The messages a ChatStream reply is made of: content, done, error, none of
\* them (every field at its default), and messages with two of them set.
MaxChunks == 3

ChunkKinds ==
    { Chunk("", FALSE, "a"), Chunk("", FALSE, "b"), Chunk("", TRUE, ""),
      Chunk("boom", FALSE, ""), Chunk("", FALSE, ""), Chunk("", TRUE, "a"),
      Chunk("boom", FALSE, "a"), Chunk("boom", TRUE, "") }

AllGrpcStreams == SeqsUpTo(ChunkKinds, MaxChunks)

\* chat_stream of the gRPC client against every reply of the bounds.
InitGrpc ==
    /\ Construct("grpc", None, None)
    /\ Idle
    /\ text = <<>>
    /\ doc = NoDoc
    /\ NoHarness

NextGrpc ==
    \/ Invoke("chat_stream", {SimpleArgs})
    \/ CallerContinues
    \/ GenStart
    \/ StreamOpen(SmallStreams, AllGrpcStreams)
    \/ GenRead
    \/ GenResume
    \/ GenClose

SpecGrpc == InitGrpc /\ [][NextGrpc]_vars

\* chat_stream of the HTTP client against every stream of the bounds.
InitStream ==
    /\ Construct("http", None, None)
    /\ Idle
    /\ text = <<>>
    /\ doc = NoDoc
    /\ NoHarness

NextStream ==
    \/ Invoke("chat_stream", {SimpleArgs})
    \/ CallerContinues
    \/ GenStart
    \/ StreamOpen(AllStreams, GrpcStreams)
    \/ GenRead
    \/ GenResume
    \/ GenClose

SpecStream == InitStream /\ [][NextStream]_vars

\* chat_json of either client against every response text of Docs.
InitJson ==
    /\ \E tr \in {"http", "grpc"} : Construct(tr, None, None)
    /\ Idle
    /\ doc \in Docs
    /\ text = Render(doc)
    /\ NoHarness

NextJson ==
    \/ Invoke("chat_json", {SimpleArgs})
    \/ Respond
    \/ CallerContinues

SpecJson == InitJson /\ [][NextJson]_vars

-----------------------------------------------------------------------------
(* test.py: the harness.                                                    *)

\* The checks of run_interface_tests and of run_http_specific_tests
InterfaceTests ==
    << "status", "list_models", "chat_simple", "chat_with_model",
       "chat_with_system_prompt", "chat_conversation", "chat_full",
       "chat_stream", "chat_json", "chat_empty_rejected" >>

HttpSpecificTests == << "http_raw_status", "http_not_found", "http_cors_headers" >>

\* What a check may do: return, raise an error (a failed assertion, an error of
\* the client), or be interrupted from the keyboard, which is no Exception.
Errors     == {"AssertionError", "CopilotClientError"}
Behaviours == {"ok", "KeyboardInterrupt"} \cup Errors

TestResult(name, passed, message) == [name |-> name, passed |-> passed, message |-> message]
NoResult == TestResult(<<>>, FALSE, "")

\* A run_test without the except clause: what the check raises leaves it.
\* C10 does not hold of it.
run_test_uncaught(name, does) ==
    IF does = "ok" THEN [raised |-> FALSE, result |-> TestResult(name, TRUE, "")]
    ELSE [raised |-> TRUE, result |-> NoResult]

\* run_test: the check's result, or raised when what it raises is not caught
\* by "except Exception".
run_test(name, does) ==
    IF does = "ok" THEN [raised |-> FALSE, result |-> TestResult(name, TRUE, "")]
    ELSE IF does \in Errors THEN [raised |-> FALSE, result |-> TestResult(name, FALSE, does)]
    ELSE [raised |-> TRUE, result |-> NoResult]

\* transport_name of run_interface_tests, "HTTP" of run_http_specific_tests
TransportName(tr) == IF tr = "http" THEN "HTTP" ELSE "gRPC"

Suites(tr) ==
    {[prefix |-> TransportName(tr), checks |-> InterfaceTests]}
    \cup (IF tr = "http" THEN {[prefix |-> "HTTP", checks |-> HttpSpecificTests]} ELSE {})

\* f"{transport_name}::{name}"
FullName(prefix, name) == <<prefix, "::", name>>

\* run_interface_tests / run_http_specific_tests is called: results = [] and
\* the list of checks is built.
StartSuite ==
    /\ pc = "idle"
    /\ call.op = "none"
    /\ \E su \in Suites(transport) :
          tests' = [i \in 1..Len(su.checks) |-> FullName(su.prefix, su.checks[i])]
    /\ results' = <<>>
    /\ did' = <<>>
    /\ pc' = "loop"
    /\ UNCHANGED <<clientVars, call, net, answer, outcome, streamVars, jsonVars, scope,
                   mainVars, pickerVars>>

\* One turn of the for loop: run_test on the next check, append its result.
RunCheck(B) ==
    /\ pc = "loop"
    /\ Len(did) < Len(tests)
    /\ \E does \in B :
          /\ did' = Append(did, does)
          /\ \E r \in {run_test(tests[Len(did) + 1], does)} :
                IF r.raised
                THEN /\ pc' = "aborted"
                     /\ results' = results
                ELSE /\ pc' = pc
                     /\ results' = Append(results, r.result)
    /\ UNCHANGED <<clientVars, call, net, answer, outcome, streamVars, jsonVars, scope, tests,
                   mainVars, pickerVars>>

\* The loop is over: return results
SuiteReturns ==
    /\ pc = "loop"
    /\ Len(did) = Len(tests)
    /\ pc' = "returned"
    /\ UNCHANGED <<clientVars, call, net, answer, outcome, streamVars, jsonVars, scope,
                   tests, results, did, mainVars, pickerVars>>

InitHarness ==
    /\ \E tr \in {"http", "grpc"} : Construct(tr, None, None)
    /\ Idle
    /\ text = <<>>
    /\ doc = NoDoc
    /\ NoHarness

NextHarness ==
    \/ StartSuite
    \/ RunCheck(Behaviours)
    \/ SuiteReturns

SpecHarness == InitHarness /\ [][NextHarness]_vars

-----------------------------------------------------------------------------
(* test.py: pick_model_interactive.                                         *)

MaxModels == 2
MaxInputs == 2

\* The families of the models a server lists, in its order
Families == << "gpt-4o", "o1", "claude-3.5-sonnet", "gpt-4o-mini" >>

\* The lists client.list_models() may return: the first n families
ModelLists(tr) ==
    { list_models(tr, Returned([models |-> [i \in 1..n |-> ModelData(tr, Families[i])]])).val.v
        : n \in 0..MaxModels }

\* What the user may type at the prompt, with what it means: nothing, a
\* number k, or something that is no number.
Entry(l, m, k) == [line |-> l, means |-> m, k |-> k]

Entries ==
    { Entry(<<>>, "blank", 0), Entry(<<" ">>, "blank", 0),
      Entry(<<"1">>, "number", 1), Entry(<<"2">>, "number", 2),
      Entry(<<"3">>, "number", 3), Entry(<<" ", "2", " ">>, "number", 2),
      Entry(<<"0">>, "number", 0), Entry(<<"-", "1">>, "number", 0 - 1),
      Entry(<<"4", "0">>, "number", 40),
      Entry(<<"x">>, "junk", 0), Entry(<<"1", ".", "5">>, "junk", 0) }

DigitValue(c) == CHOOSE n \in 0..9 : <<"0", "1", "2", "3", "4", "5", "6", "7", "8", "9">>[n + 1] = c

RECURSIVE DigitsValue(_)
DigitsValue(ds) ==
    IF ds = <<>> THEN 0
    ELSE DigitsValue(SubSeq(ds, 1, Len(ds) - 1)) * 10 + DigitValue(ds[Len(ds)])

\* int(s): an optional sign and decimal digits, whitespace around them
\* ignored; ValueError (not ok) for anything else.
ParseSigned(t, signed) ==
    IF t = <<>> \/ \E i \in 1..Len(t) : t[i] \notin Digits
    THEN [ok |-> FALSE, val |-> 0]
    ELSE [ok |-> TRUE, val |-> IF signed = "-" THEN 0 - DigitsValue(t) ELSE DigitsValue(t)]

int(s) ==
    IF Strip(s) # <<>> /\ Head(Strip(s)) \in {"+", "-"}
    THEN ParseSigned(Tail(Strip(s)), Head(Strip(s)))
    ELSE ParseSigned(Strip(s), "+")

\* A picker that takes an out-of-range number for the nearest model instead
\* of asking again.  C12 does not hold of it.
ChooseNearest(ms, idx) ==
    IF idx.ok
    THEN [ret |-> TRUE, family |-> ms[Max({1, Min({idx.val + 1, Len(ms)})})].family]
    ELSE [ret |-> FALSE, family |-> None]

\* The body of the while loop on the line input() returned: the family to
\* return, or invalid (ValueError, or the index is out of range).
Choose(ms, idx) ==
    IF idx.ok /\ 0 <= idx.val /\ idx.val < Len(ms)
    THEN [ret |-> TRUE, family |-> ms[idx.val + 1].family]
    ELSE [ret |-> FALSE, family |-> None]

OnChoice(ms, choice) ==
    IF choice = <<>> THEN Choose(ms, [ok |-> TRUE, val |-> 0])
    ELSE Choose(ms, [ok |-> int(choice).ok, val |-> int(choice).val - 1])

\* models = client.list_models(): the call raises (which nothing in main
\* catches), or returns no model (sys.exit(1)), or the picker lists the models.
PickList ==
    /\ mpc = "pick_list"
    /\ \/ /\ mpc' = "exited"
          /\ exit_status' = 1
          /\ UNCHANGED models
       \/ /\ \E ms \in ModelLists(transport) :
                /\ models' = ms
                /\ IF ms = <<>>
                   THEN mpc' = "exited" /\ exit_status' = 1
                   ELSE mpc' = "pick_prompt" /\ exit_status' = exit_status
    /\ UNCHANGED <<clientVars, call, net, answer, outcome, streamVars, jsonVars, scope, suiteVars,
                   opts, all_results, selected_model, stdin, nread>>

\* choice = input(...).strip() and the rest of the try block: input() raises
\* EOFError at the end of the input.
PickInput ==
    /\ mpc = "pick_prompt"
    /\ IF nread = Len(stdin)
       THEN /\ mpc' = "pick_invalid"
            /\ UNCHANGED <<nread, selected_model>>
       ELSE /\ nread' = nread + 1
            /\ \E c \in {OnChoice(models, Strip(stdin[nread + 1].line))} :
                  IF c.ret
                  THEN mpc' = "http_interface" /\ selected_model' = c.family
                  ELSE mpc' = "pick_invalid" /\ selected_model' = selected_model
    /\ UNCHANGED <<clientVars, call, net, answer, outcome, streamVars, jsonVars, scope, suiteVars,
                   opts, all_results, exit_status, models, stdin>>

\* "Invalid choice" or "Invalid input" is printed and the loop goes round.
PickAgain ==
    /\ mpc = "pick_invalid"
    /\ mpc' = "pick_prompt"
    /\ UNCHANGED <<clientVars, call, net, answer, outcome, streamVars, jsonVars, scope, suiteVars,
                   opts, all_results, exit_status, pickerVars>>

Picking == mpc \in {"pick_list", "pick_prompt", "pick_invalid"}

\* pick_model_interactive(http_client) against every input of the bounds
InitPick ==
    /\ Construct("http", None, None)
    /\ Idle
    /\ text = <<>>
    /\ doc = NoDoc
    /\ NoSuite
    /\ opts = Options(FALSE, FALSE, None)
    /\ mpc = "pick_list"
    /\ all_results = <<>>
    /\ exit_status = 0
    /\ selected_model = None
    /\ models = <<>>
    /\ stdin \in SeqsUpTo(Entries, MaxInputs)
    /\ nread = 0
    /\ scope = "none"

NextPick ==
    \/ PickList
    \/ PickInput
    \/ PickAgain

\* The process is scheduled as long as it can run.
SpecPick == InitPick /\ [][NextPick]_vars /\ WF_vars(NextPick)

-----------------------------------------------------------------------------
(* test.py: main.                                                           *)

MaxFailing == 1

\* failed = sum(1 for r in all_results if not r.passed)
Failed(rs) == Cardinality({i \in 1..Len(rs) : ~rs[i].passed})

\* A harness that always reports success.  C11 does not hold of it.
ExitStatusZero(rs) == 0

\* sys.exit(0 if failed == 0 else 1)
ExitStatus(rs) == IF Failed(rs) = 0 THEN 0 ELSE 1

\* The status of a process that ends by an uncaught KeyboardInterrupt: the
\* interpreter ends by the signal, which is reported as 128 + SIGINT
Interrupted == 128 + 2

\* A client whose close() does nothing.  C14 does not hold of it.
close_nothing(ch) == ch

\* CopilotGrpcClient.close: self._channel.close()
close(ch) == "closed"

\* What the checks of a run may do: at most MaxFailing of them raise an error.
MainBehaviours ==
    IF Failed(all_results) + Failed(results) < MaxFailing
    THEN Behaviours
    ELSE Behaviours \ Errors

\* main up to the HTTP client: with --grpc-only the HTTP part is skipped.
MainBegin ==
    /\ mpc = "begin"
    /\ IF opts.grpc_only
       THEN /\ mpc' = "grpc_begin"
            /\ UNCHANGED clientVars
       ELSE /\ mpc' = "http_connect"
            /\ transport' = "http"
            /\ UNCHANGED <<default_model, default_vendor, channel>>
    /\ UNCHANGED <<call, net, answer, outcome, streamVars, jsonVars, scope, suiteVars,
                   opts, all_results, exit_status, pickerVars>>

\* s = http_client.status(): it returns, or it raises and main exits with 1.
HttpConnect ==
    /\ mpc = "http_connect"
    /\ \/ /\ mpc' = "model"
          /\ UNCHANGED exit_status
       \/ /\ mpc' = "exited"
          /\ exit_status' = 1
    /\ UNCHANGED <<clientVars, call, net, answer, outcome, streamVars, jsonVars, scope, suiteVars,
                   opts, all_results, pickerVars>>

\* selected_model = args.model, or the picker when that is not set
SelectModel ==
    /\ mpc = "model"
    /\ IF Truthy(opts.model)
       THEN mpc' = "http_interface" /\ selected_model' = opts.model
       ELSE mpc' = "pick_list" /\ selected_model' = selected_model
    /\ UNCHANGED <<clientVars, call, net, answer, outcome, streamVars, jsonVars, scope, suiteVars,
                   opts, all_results, exit_status, models, stdin, nread>>

\* The suite main runs at each place
SuiteAt(at) ==
    CASE at = "http_interface" -> [prefix |-> "HTTP", checks |-> InterfaceTests]
      [] at = "http_specific"  -> [prefix |-> "HTTP", checks |-> HttpSpecificTests]
      [] at = "grpc_interface" -> [prefix |-> "gRPC", checks |-> InterfaceTests]

\* Where main goes on after the suite
AfterSuite(at) ==
    CASE at = "http_interface" -> "http_specific"
      [] at = "http_specific"  -> "grpc_begin"
      [] at = "grpc_interface" -> "grpc_finally"

RunsSuite == mpc \in {"http_interface", "http_specific", "grpc_interface"}

\* main calls run_interface_tests or run_http_specific_tests.
MainStartSuite ==
    /\ RunsSuite
    /\ pc = "idle"
    /\ tests' = [i \in 1..Len(SuiteAt(mpc).checks) |->
                    FullName(SuiteAt(mpc).prefix, SuiteAt(mpc).checks[i])]
    /\ results' = <<>>
    /\ did' = <<>>
    /\ pc' = "loop"
    /\ UNCHANGED <<clientVars, call, net, answer, outcome, streamVars, jsonVars, scope,
                   mainVars, pickerVars>>

\* all_results.extend(...) with what the suite returned
MainCollect ==
    /\ RunsSuite
    /\ pc = "returned"
    /\ all_results' = all_results \o results
    /\ mpc' = AfterSuite(mpc)
    /\ tests' = <<>>
    /\ results' = <<>>
    /\ did' = <<>>
    /\ pc' = "idle"
    /\ UNCHANGED <<clientVars, call, net, answer, outcome, streamVars, jsonVars, scope,
                   opts, exit_status, pickerVars>>

\* A check was interrupted: nothing catches KeyboardInterrupt, the finally
\* clause around the gRPC checks closes the client, and the process ends.
MainInterrupted ==
    /\ RunsSuite
    /\ pc = "aborted"
    /\ channel' = IF mpc = "grpc_interface" THEN close(channel) ELSE channel
    /\ mpc' = "exited"
    /\ exit_status' = Interrupted
    /\ UNCHANGED <<transport, default_model, default_vendor, call, net, answer, outcome,
                   streamVars, jsonVars, scope, suiteVars, opts, all_results, pickerVars>>

\* The gRPC part: skipped with --http-only, and when the import fails;
\* otherwise the client is constructed.
GrpcBegin ==
    /\ mpc = "grpc_begin"
    /\ \/ /\ opts.http_only
          /\ mpc' = "summary"
          /\ UNCHANGED clientVars
       \/ /\ ~opts.http_only
          /\ mpc' = "summary"
          /\ UNCHANGED clientVars
       \/ /\ ~opts.http_only
          /\ mpc' = "grpc_connect"
          /\ transport' = "grpc"
          /\ default_model' = Or(None, "")
          /\ default_vendor' = Or(None, "")
          /\ channel' = "open"
    /\ UNCHANGED <<call, net, answer, outcome, streamVars, jsonVars, scope, suiteVars,
                   opts, all_results, exit_status, pickerVars>>

\* s = grpc_client.status(): it returns and the checks run, or it raises, the
\* except clause prints, and the finally clause closes the client.
GrpcConnect ==
    /\ mpc = "grpc_connect"
    /\ \/ /\ mpc' = "grpc_interface"
          /\ UNCHANGED channel
       \/ /\ mpc' = "summary"
          /\ channel' = close(channel)
    /\ UNCHANGED <<transport, default_model, default_vendor, call, net, answer, outcome,
                   streamVars, jsonVars, scope, suiteVars, opts, all_results, exit_status, pickerVars>>

\* finally: grpc_client.close() after the gRPC checks
GrpcFinally ==
    /\ mpc = "grpc_finally"
    /\ channel' = close(channel)
    /\ mpc' = "summary"
    /\ UNCHANGED <<transport, default_model, default_vendor, call, net, answer, outcome,
                   streamVars, jsonVars, scope, suiteVars, opts, all_results, exit_status, pickerVars>>

\* The summary is printed and the process exits.
Summary ==
    /\ mpc = "summary"
    /\ exit_status' = ExitStatus(all_results)
    /\ mpc' = "exited"
    /\ UNCHANGED <<clientVars, call, net, answer, outcome, streamVars, jsonVars, scope, suiteVars,
                   opts, all_results, pickerVars>>

\* What the user of a run of main types
MainInputs == { <<>>, <<Entry(<<>>, "blank", 0)>>,
                <<Entry(<<"x">>, "junk", 0), Entry(<<"2">>, "number", 2)>> }

InitMain ==
    /\ transport = "none"
    /\ default_model = None
    /\ default_vendor = None
    /\ channel = "none"
    /\ Idle
    /\ text = <<>>
    /\ doc = NoDoc
    /\ NoSuite
    /\ opts \in {Options(h, g, m) : h \in BOOLEAN, g \in BOOLEAN, m \in {None, "m1"}}
    /\ mpc = "begin"
    /\ all_results = <<>>
    /\ exit_status = 0
    /\ selected_model = None
    /\ models = <<>>
    /\ stdin \in MainInputs
    /\ nread = 0
    /\ scope = "none"

NextMain ==
    \/ MainBegin
    \/ HttpConnect
    \/ SelectModel
    \/ PickList
    \/ PickInput
    \/ PickAgain
    \/ MainStartSuite
    \/ RunCheck(MainBehaviours)
    \/ SuiteReturns
    \/ MainCollect
    \/ MainInterrupted
    \/ GrpcBegin
    \/ GrpcConnect
    \/ GrpcFinally
    \/ Summary

SpecMain == InitMain /\ [][NextMain]_vars

-----------------------------------------------------------------------------
(* CopilotGrpcClient as a context manager, and the lifetime of its channel. *)

\* with CopilotGrpcClient(...) as client: __enter__ returns self
ScopeEnter ==
    /\ scope = "none"
    /\ mpc = "none"
    /\ transport = "grpc"
    /\ call.op = "none"
    /\ scope' = "inside"
    /\ UNCHANGED <<clientVars, call, net, answer, outcome, streamVars, jsonVars, harnessVars>>

\* The block is left, at its end or by what an operation in it raised:
\* __exit__ calls close().
ScopeExit ==
    /\ scope = "inside"
    /\ call.op = "none" \/ outcome.kind = "raise"
    /\ channel' = close(channel)
    /\ scope' = "left"
    /\ UNCHANGED <<transport, default_model, default_vendor, call, net, answer, outcome,
                   streamVars, jsonVars, harnessVars>>

InitScope ==
    /\ Construct("grpc", None, None)
    /\ Idle
    /\ text = Dumps(ObjA)
    /\ doc = NoDoc
    /\ NoHarness

NextScope ==
    \/ ScopeEnter
    \/ scope = "inside" /\ \E op \in {"status", "chat"} : Invoke(op, {SimpleArgs})
    \/ Respond
    \/ scope = "inside" /\ CallerContinues
    \/ ScopeExit

\* The gRPC client in a with block, and the gRPC client of a run of main
SpecLifetime == (InitScope \/ InitMain) /\ [][NextScope \/ NextMain]_vars

-----------------------------------------------------------------------------
(* A server that accepts the request and never replies.                     *)

SilentOps == {"status", "list_models", "chat", "chat_full", "chat_stream"}

\* The call is blocked in the network: in urlopen or a stub method, or in the
\* first next() of the stream.
Waiting == (outcome.kind = "pending" /\ gen = "none") \/ gen = "connect"

\* The timeout given to urlopen expires: socket.timeout leaves the call.  A
\* stub method called without timeout= has no deadline, and nothing expires.
TimeoutFires ==
    /\ Waiting
    /\ net[Len(net)].timeout # <<>>
    /\ answer' = Reply("timeout", NoValue)
    /\ outcome' = Receive(transport, call.op, Reply("timeout", NoValue))
    /\ gen' = IF gen = "connect" THEN "finished" ELSE gen
    /\ UNCHANGED <<clientVars, call, net, resp, wire, buffer, lines, yielded, sent,
                   jsonVars, scope, harnessVars>>

NextSilent ==
    \/ \E op \in SilentOps : Invoke(op, ArgsFor(transport, op))
    \/ GenStart
    \/ TimeoutFires
    \/ CallerContinues

\* Time passes: a timeout that is set expires.
SpecSilent == Init /\ [][NextSilent]_vars /\ WF_vars(TimeoutFires)

-----------------------------------------------------------------------------
(* Properties of the calls (specification Spec).                            *)

Ended == outcome.kind \in {"return", "raise", "closed"}

EmptyMessages(a) == a.messages.kind = "list" /\ a.messages.items = <<>>

\* C1: chat with an empty message sequence fails with a validation error of
\* the client, and no network exchange is attempted for the call.
C1_EmptyChatRejected ==
    (call.op = "chat" /\ EmptyMessages(call.args))
        => /\ net = <<>>
           /\ Ended => (outcome.kind = "raise" /\ outcome.exc = "ValidationError")

\* What the clients do with it: the request goes out with no messages.
C1_EmptyChatSent ==
    (call.op = "chat" /\ EmptyMessages(call.args))
        => /\ Len(net) = 1
           /\ net[1].path \in {"/chat", "Chat"}
           /\ net[1].body["messages"] = <<>>

C1_Witness ==
    /\ call.op = "chat"
    /\ EmptyMessages(call.args)
    /\ outcome.kind = "return"

\* Whether any of the generator's body has run.
Advanced ==
    \/ gen \in {"connect", "read", "yield"}
    \/ gen = "finished" /\ ~(outcome.kind = "closed" /\ yielded = <<>>)

\* C8 as stated: every call that has ended performed exactly one exchange.
C8_ExactlyOneExchange == Ended => Len(net) = 1

\* C8: a call never performs more than one exchange; status, list_models, chat,
\* chat_full and chat_json perform exactly one, and chat_stream performs one
\* when the caller first advances the sequence and none before that.
C8_OneExchange ==
    /\ Len(net) <= 1
    /\ call.op \in Ops \ {"chat_stream"} => Len(net) = 1
    /\ call.op = "chat_stream" => (Len(net) = 1 <=> Advanced)

C8_Witness ==
    /\ call.op = "chat_full"
    /\ outcome.kind = "raise"
    /\ Len(net) = 1

Given(x) == Truthy(x)

\* The value of an optional field of the body: the per-call value when one is
\* given, otherwise the default when one is set, otherwise the field is absent.
FieldAgrees(body, k, percall, dflt) ==
    IF Given(percall) THEN k \in DOMAIN body /\ body[k] = percall
    ELSE IF Given(dflt) THEN k \in DOMAIN body /\ body[k] = dflt
    ELSE k \notin DOMAIN body

MessagesAgree(body, messages) ==
    /\ "messages" \in DOMAIN body
    /\ IF messages.kind = "str"
       THEN body["messages"] = <<Dict("user", messages.text)>>
       ELSE /\ Len(body["messages"]) = Len(messages.items)
            /\ \A i \in 1..Len(messages.items) :
                  /\ body["messages"][i].role = messages.items[i].role
                  /\ body["messages"][i].content = messages.items[i].content

\* C9: the body of the HTTP request of chat, chat_full and chat_stream holds
\* the messages (one user message for a prompt, the list in its order and
\* length otherwise), model and vendor by per-call value before default, and
\* no optional field that has neither.
C9_PayloadContents ==
    (transport = "http" /\ call.op \in {"chat", "chat_full", "chat_stream"} /\ net # <<>>)
        => /\ net[1].method = "POST"
           /\ MessagesAgree(net[1].body, call.args.messages)
           /\ FieldAgrees(net[1].body, "model", call.args.model, default_model)
           /\ FieldAgrees(net[1].body, "vendor", call.args.vendor, default_vendor)
           /\ FieldAgrees(net[1].body, "systemPrompt", call.args.system_prompt, None)

C9_Witness ==
    /\ transport = "http"
    /\ call.op = "chat_stream"
    /\ net # <<>>
    /\ call.args.model = "m1"
    /\ default_model = "dm"
    /\ call.args.vendor = None
    /\ default_vendor = "dv"
    /\ call.args.messages.kind = "list"
    /\ Len(call.args.messages.items) = 2

-----------------------------------------------------------------------------
(* Properties of chat_json (specification SpecJson).                        *)

\* chat_json has ended and the server had answered the chat with text.
JsonDone ==
    /\ call.op = "chat_json"
    /\ outcome.kind \in {"return", "raise"}
    /\ answer.kind = "ok"

Parses(s) == json_loads(s).ok

\* Stage 2 finds a fenced block in s whose text does not parse.
FenceFails(s) == FenceSearch(s).found /\ ~Parses(Strip(FenceSearch(s).group))

\* Stage 3 would find a substring of s from the first "{" to the last "}" that
\* parses.
BraceParses(s) == BraceSearch(s).found /\ Parses(BraceSearch(s).group)

\* No stage gets a value out of s.
NoStageParses(s) ==
    /\ ~Parses(s)
    /\ ~(FenceSearch(s).found /\ Parses(Strip(FenceSearch(s).group)))
    /\ ~BraceParses(s)

\* C5: when the fenced block of the response does not parse, stage 3 is still
\* tried: a response that also holds a valid {...} object returns that object.
C5_FallbackChain ==
    (JsonDone /\ ~Parses(text) /\ FenceFails(text) /\ BraceParses(text))
        => outcome = Returned(json_loads(BraceSearch(text).group).val)

\* What chat_json does then: the fenced block's JSONDecodeError leaves.
C5_FenceErrorLeaves ==
    (JsonDone /\ ~Parses(text) /\ FenceFails(text))
        => outcome = Raised("JSONDecodeError", NoValue)

\* C6: when no stage gets a value out of the response, chat_json fails with
\* the parse error carrying the first 500 characters of the text, and with no
\* other kind of error.
C6_ParseErrorWithPreview ==
    (JsonDone /\ NoStageParses(text))
        => /\ outcome = Raised(ParseErrorOf(transport), JStr(Preview(text)))
           /\ Len(outcome.val.v) <= PreviewLen

\* The response is exactly a JSON object, or that object alone in a fenced
\* block with or without the json tag.
ExactObject == doc.body.obj /\ doc.pre = <<>> /\ doc.post = <<>>
Unwrapped   == ExactObject /\ doc.open = "none" /\ ~doc.close
Wrapped     == ExactObject /\ doc.open \in {"bare", "json"} /\ doc.close

HasFence(s) == Find(s, Fence, 1) # 0

-----------------------------------------------------------------------------
(* Properties of the HTTP chat_stream (specification SpecStream).           *)

\* The events of a stream that end with their blank line: the read loop never
\* takes an event out of the buffer before its blank line has arrived.
CompleteEvents(st) ==
    IF st.ended \/ st.events = <<>> THEN st.events
    ELSE SubSeq(st.events, 1, Len(st.events) - 1)

\* The lines of the stream, in arrival order
AllLines(st) == Concat(CompleteEvents(st))

IsContentLine(k) == k \in {"a", "b", "u"}

\* The content value of a content line
ContentOf(k) == IF k = "u" THEN JStr(<<EAcute>>) ELSE JStr(<<k>>)

\* The content values of the content lines among ls, in order
Contents(ls) ==
    LET cs == SelectSeq(ls, IsContentLine)
    IN  [i \in 1..Len(cs) |-> ContentOf(cs[i])]

\* The position of the first line of kind k among ls, Len(ls) + 1 if none
FirstLine(ls, k) == Min({i \in 1..Len(ls) : ls[i] = k} \cup {Len(ls) + 1})

\* The lines before the first line of kind k
Before(ls, k) == SubSeq(ls, 1, FirstLine(ls, k) - 1)

IsPrefix(p, q) == Len(p) <= Len(q) /\ SubSeq(q, 1, Len(p)) = p

\* The generator is finished after the whole of what the server sent has
\* been received and looked at (no read timed out, the caller did not leave).
Consumed ==
    /\ gen = "finished"
    /\ resp # "none"
    /\ outcome.kind \in {"return", "raise"}
    /\ outcome.exc # "TimeoutError"

\* C2 as stated: whatever events are received, the fragments yielded are the
\* content values of the data lines before the first done line.
C2_FragmentsBeforeDoneAnyEvents ==
    Consumed => yielded = Contents(Before(AllLines(sent), "done"))

\* C2: the fragments yielded are always a prefix, in arrival order, of the
\* content values of the data lines before the first done line, so nothing
\* after the done line is ever yielded; they are all of them when the
\* sequence ends by returning (a done line or the end of the response).
C2_FragmentsBeforeDone ==
    /\ gen # "none" => IsPrefix(yielded, Contents(Before(AllLines(sent), "done")))
    /\ (Consumed /\ outcome.kind = "return")
          => yielded = Contents(Before(AllLines(sent), "done"))

C2_Witness ==
    /\ Consumed
    /\ outcome.kind = "return"
    /\ sent.events = << <<"a", "done", "b">>, <<"b">> >>
    /\ yielded = <<JStr(<<"a">>)>>

\* The lines at which the read loop stops: done, error, and the lines it
\* cannot process.
StopKinds == {"done", "error", "bad", "nonobj"}

\* The first line among ls the loop stops at is an error line.
ErrorComesFirst(ls) ==
    /\ FirstLine(ls, "error") <= Len(ls)
    /\ \A i \in 1..(FirstLine(ls, "error") - 1) : ls[i] \notin StopKinds

\* C3: when the read loop comes to an error line it raises the client error
\* with the line's text; the fragments of the content lines before it have been
\* yielded, and no fragment of a line after it is.
C3_ErrorRaisedInPlace ==
    /\ (gen = "finished" /\ resp # "none" /\ outcome.exc = "CopilotClientError")
          => /\ ErrorComesFirst(AllLines(sent))
             /\ outcome = Raised("CopilotClientError", JStr(<<"e">>))
             /\ yielded = Contents(Before(AllLines(sent), "error"))
    /\ (Consumed /\ outcome.exc # "UnicodeDecodeError" /\ ErrorComesFirst(AllLines(sent)))
          => outcome.exc = "CopilotClientError"

C3_Witness ==
    /\ gen = "finished"
    /\ outcome.exc = "CopilotClientError"
    /\ sent.events = << <<"a", "error", "b">>, <<"b">> >>
    /\ yielded = <<JStr(<<"a">>)>>

\* C4: once the response is open, the generator never finishes with it open.
C4_ConnectionClosed ==
    (gen = "finished" /\ resp # "none") => resp = "closed"

C4_Witness ==
    /\ gen = "finished"
    /\ outcome.kind = "closed"
    /\ yielded # <<>>
    /\ resp = "closed"

-----------------------------------------------------------------------------
(* Properties of the harness (specification SpecHarness).                   *)

\* C10: every check run so far has exactly one result, in order, which is a
\* pass when the check returned and a failure naming the error when it raised
\* one; an error raised by a check never ends the suite, so a suite that
\* returns has run every one of its checks, and a suite ends early only when a
\* check is interrupted.
C10_CheckIsolation ==
    /\ pc \in {"loop", "returned"} => Len(results) = Len(did)
    /\ \A i \in 1..Len(results) :
          /\ results[i].name = tests[i]
          /\ results[i].passed = (did[i] = "ok")
          /\ did[i] \in Errors => results[i].message = did[i]
    /\ pc = "returned" => Len(results) = Len(tests)
    /\ pc = "aborted" => did[Len(did)] \notin Errors \cup {"ok"}

C10_Witness ==
    /\ pc = "returned"
    /\ Len(tests) = Len(InterfaceTests)
    /\ did[1] = "CopilotClientError"
    /\ did[2] = "AssertionError"
    /\ did[Len(tests)] = "ok"
    /\ ~results[1].passed
    /\ results[Len(tests)].passed

-----------------------------------------------------------------------------
(* Properties of pick_model_interactive (specification SpecPick).           *)

\* The entry selects a model of a list of n: blank input, or a number in 1..n.
Selects(e, n) == e.means = "blank" \/ (e.means = "number" /\ 1 <= e.k /\ e.k <= n)

\* The position in the list the entry selects
Selected(e) == IF e.means = "blank" THEN 1 ELSE e.k

PickReturned == mpc = "http_interface"

\* C12: over a non-empty list, blank input returns the family of the first
\* model and entry k in 1..n that of the k-th; every other entry returns
\* nothing and the prompt comes again; what is returned is the family of a
\* model of the list.
C12_PickModel ==
    /\ PickReturned
          => /\ nread >= 1
             /\ Selects(stdin[nread], Len(models))
             /\ selected_model = models[Selected(stdin[nread])].family
             /\ \E i \in 1..Len(models) : selected_model = models[i].family
             /\ \A i \in 1..(nread - 1) : ~Selects(stdin[i], Len(models))
    /\ mpc \in {"pick_prompt", "pick_invalid"}
          => /\ models # <<>>
             /\ selected_model = None
             /\ \A i \in 1..nread : ~Selects(stdin[i], Len(models))
    /\ (mpc = "pick_prompt" /\ nread >= 1) => ENABLED PickInput

C12_Witness ==
    /\ PickReturned
    /\ Len(models) = 2
    /\ nread = 2
    /\ stdin[1].means = "number"
    /\ stdin[1].k = 3
    /\ stdin[2].line = <<" ", "2", " ">>
    /\ selected_model = Families[2]

\* C18: the picker ends, whatever is typed: at the end of the input it returns
\* or exits.
C18_PickTerminates == <>(~Picking)

\* What the picker does at the end of the input: it stays in its loop.
C18_LoopsAtEndOfInput ==
    [][(mpc = "pick_invalid" /\ nread = Len(stdin)) => Picking']_vars

-----------------------------------------------------------------------------
(* Properties of main (specifications SpecMain and SpecLifetime).           *)

\* C11: when a check has recorded a failed result, in a suite that returned or
\* in the one that was running, the process ends with a status that is not 0.
C11_FailureExitsNonZero ==
    (mpc = "exited" /\ Failed(all_results) + Failed(results) > 0) => exit_status # 0

C11_Witness ==
    /\ mpc = "exited"
    /\ ~opts.http_only
    /\ ~opts.grpc_only
    /\ channel = "closed"
    /\ Failed(all_results) = 1
    /\ ~all_results[1].passed
    /\ Len(all_results) = Len(InterfaceTests) + Len(HttpSpecificTests)
    /\ exit_status = 1

\* C14: the channel of a gRPC client is closed when its with block is left,
\* at the end of the block or by an error raised in it; and when main has
\* constructed a gRPC client, the channel is closed by the time the summary is
\* printed or the process ends, whether the checks ran, the connection failed
\* or a check was interrupted.
C14_ChannelClosed ==
    /\ scope = "left" => channel = "closed"
    /\ (mpc \in {"summary", "exited"} /\ channel # "none") => channel = "closed"

C14_Witness ==
    /\ scope = "left"
    /\ outcome.kind = "raise"
    /\ channel = "closed"

C14_MainWitness ==
    /\ mpc = "exited"
    /\ exit_status = Interrupted
    /\ transport = "grpc"
    /\ channel = "closed"

-----------------------------------------------------------------------------
(* Properties of the gRPC stream (specification SpecGrpc).                  *)

\* The messages the server sent on the call
Messages == sent.events

IsStop(c) == Truthy(c.error) \/ c.done

\* The position of the first error or done message, Len(ms) + 1 if none
FirstStop(ms) == Min({i \in 1..Len(ms) : IsStop(ms[i])} \cup {Len(ms) + 1})

\* The contents of the messages before the first error or done message
ContentsBeforeStop(ms) ==
    LET cs == SelectSeq(SubSeq(ms, 1, FirstStop(ms) - 1), LAMBDA c : Truthy(c.content))
    IN  [i \in 1..Len(cs) |-> JStr(cs[i].content)]

\* The call is over and every message up to the one that ended it was handled
\* (the RPC did not fail, the caller did not leave).
GrpcConsumed ==
    /\ transport = "grpc"
    /\ gen = "finished"
    /\ outcome.kind \in {"return", "raise"}
    /\ outcome.exc # "RpcError"

\* C13: the fragments yielded are always the first of the contents of the
\* messages before the first error or done message, in the order of arrival;
\* when the call is over they are all of them, and the call has ended with
\* RuntimeError carrying the error text exactly when that first message has an
\* error, and by returning otherwise.
C13_GrpcStreamOrder ==
    /\ (transport = "grpc" /\ gen # "none")
          => IsPrefix(yielded, ContentsBeforeStop(Messages))
    /\ GrpcConsumed
          => /\ yielded = ContentsBeforeStop(Messages)
             /\ IF FirstStop(Messages) <= Len(Messages)
                   /\ Truthy(Messages[FirstStop(Messages)].error)
                THEN outcome = Raised("RuntimeError", JStr(Messages[FirstStop(Messages)].error))
                ELSE outcome = Returned(NoValue)

C13_Witness ==
    /\ GrpcConsumed
    /\ Messages = << Chunk("", FALSE, "b"), Chunk("", FALSE, "a"), Chunk("boom", FALSE, "") >>
    /\ yielded = <<JStr("b"), JStr("a")>>
    /\ outcome.exc = "RuntimeError"

-----------------------------------------------------------------------------
(* Properties of the other data lines (specification SpecStream).           *)

\* The data lines whose value is none of {done: true}, {error}, {content}
OtherShapes == {"other", "notdone", "nonobj"}

\* The lines the loop stops at when every line of another shape is skipped
ShapedStops == {"done", "error", "bad"}

FirstShapedStop(ls) == Min({i \in 1..Len(ls) : ls[i] \in ShapedStops} \cup {Len(ls) + 1})

\* What the sequence does when the lines of OtherShapes among ls do nothing
IgnoringOtherShapes(ls) ==
    /\ yielded = Contents(SubSeq(ls, 1, FirstShapedStop(ls) - 1))
    /\ outcome.exc = CASE FirstShapedStop(ls) > Len(ls)           -> ""
                       [] ls[FirstShapedStop(ls)] = "done"        -> ""
                       [] ls[FirstShapedStop(ls)] = "error"       -> "CopilotClientError"
                       [] OTHER                                   -> "JSONDecodeError"

\* C15: a data line of another shape (an object with other keys, {done: false},
\* a value that is not an object) yields nothing, raises nothing, and the
\* lines after it are processed as if it were not there.
C15_OtherShapesIgnored ==
    (Consumed /\ outcome.exc # "UnicodeDecodeError") => IgnoringOtherShapes(AllLines(sent))

\* The same for the streams whose data lines are all objects: this holds.
C15_OtherObjectsIgnored ==
    (/\ Consumed
     /\ outcome.exc # "UnicodeDecodeError"
     /\ \A i \in 1..Len(AllLines(sent)) : AllLines(sent)[i] # "nonobj")
        => IgnoringOtherShapes(AllLines(sent))

\* A data line whose value is not an object ends the sequence with
\* AttributeError.
C15_NonObjectRaises ==
    (/\ Consumed
     /\ outcome.exc # "UnicodeDecodeError"
     /\ sent.events = << <<"nonobj">>, <<"a">> >>
     /\ sent.ended)
        => (outcome.exc = "AttributeError" /\ yielded = <<>>)

-----------------------------------------------------------------------------
(* Properties of the reads (specification SpecStream).                      *)

\* The fragments and the exception of a generator that is run to its end from
\* the stretch st of its loop, every later read finding the response at its
\* end.
RECURSIVE RunToEnd(_, _)
RunToEnd(st, ys) ==
    CASE st.act = "yield" -> RunToEnd(Process(st.buffer, st.lines), Append(ys, st.val))
      [] st.act = "read"  -> [yielded |-> ys, exc |-> ""]
      [] OTHER            -> [yielded |-> ys, exc |-> st.exc]

\* The outcome when the first read returns the whole text of the response
InOneRead(st) == RunToEnd(AfterRead(<<>>, Concat(StreamPieces(st.events, st.ended))), <<>>)

SameAsInOneRead(o) == yielded = o.yielded /\ outcome.exc = o.exc

HasMultibyte(st) == \E i \in 1..Len(st.events) : \E j \in 1..Len(st.events[i]) : st.events[i][j] = "u"

\* C17: however the text of the response is split into reads, the fragments
\* yielded and the way the sequence ends are those of the whole text received
\* in one read.
C17_SplitIndependent ==
    Consumed => SameAsInOneRead(InOneRead(sent))

\* The same for the responses made of one-byte characters: this holds.
C17_SplitIndependentAscii ==
    (Consumed /\ ~HasMultibyte(sent)) => SameAsInOneRead(InOneRead(sent))

\* A read that ends inside a character ends the sequence with
\* UnicodeDecodeError, the whole text in one read does not.
C17_SplitCharacterRaises ==
    (Consumed /\ outcome.exc = "UnicodeDecodeError")
        => (HasMultibyte(sent) /\ InOneRead(sent).exc # "UnicodeDecodeError")

-----------------------------------------------------------------------------
(* Properties of the waits (specification SpecSilent).                      *)

\* C16: a call that waits for a server that never replies comes to an end.
C16_EveryWaitBounded == Waiting ~> ~Waiting

\* The same for the HTTP client: this holds.
C16_HttpWaitBounded == (transport = "http" /\ Waiting) ~> ~Waiting

\* Every exchange of the HTTP client carries a timeout, no exchange of the
\* gRPC client does.
C16_TimeoutsGiven ==
    \A i \in 1..Len(net) : (net[i].timeout # <<>>) <=> (transport = "http")

====
